---- MODULE Spec2Model ----
\* Model of src/streamlit_app.py: the SQL permission gate, the context-bound
\* executor, the identity store and the tenant lifecycle, over a small model
\* of the backing database (the users table and the schema catalog).
EXTENDS Integers, Sequences, FiniteSets, TLC

VARIABLES
    sql,        \* gate specification: the SQL text handed to the gate
    username,   \* gate specification: the caller name handed to the gate
    verdict,    \* gate specification: what validate_sql_permissions returned
    users,      \* table system_app.users: name -> stored credential
    schemas,    \* schema catalog of the database (identifiers are case-folded)
    tables,     \* schemas that currently hold a table t
    session,    \* st.session_state of each browser session: username, token
    auth,       \* history: how each session's login was authenticated
    known,      \* history: the names get_all_users() has ever had to list
    proc,       \* interleaving specification: the two calls in progress
    call        \* the last handler invocation: arguments, events, result

gateVars == <<sql, username, verdict>>
appVars == <<users, schemas, tables, session, auth, known, proc, call>>
vars == <<sql, username, verdict, users, schemas, tables, session, auth, known, proc, call>>

----------------------------------------------------------------------------
\* Text: a Python str is a sequence of one-character strings.

UpperToLower ==
    ("A" :> "a") @@ ("B" :> "b") @@ ("C" :> "c") @@ ("D" :> "d") @@
    ("E" :> "e") @@ ("F" :> "f") @@ ("G" :> "g") @@ ("H" :> "h") @@
    ("I" :> "i") @@ ("J" :> "j") @@ ("K" :> "k") @@ ("L" :> "l") @@
    ("M" :> "m") @@ ("N" :> "n") @@ ("O" :> "o") @@ ("P" :> "p") @@
    ("Q" :> "q") @@ ("R" :> "r") @@ ("S" :> "s") @@ ("T" :> "t") @@
    ("U" :> "u") @@ ("V" :> "v") @@ ("W" :> "w") @@ ("X" :> "x") @@
    ("Y" :> "y") @@ ("Z" :> "z")

Digits == {"0","1","2","3","4","5","6","7","8","9"}

LowerLetters == {UpperToLower[c] : c \in DOMAIN UpperToLower}

\* str.lower() on one character
LowerChar(c) == IF c \in DOMAIN UpperToLower THEN UpperToLower[c] ELSE c

\* mutant: the text is not case-folded
LowerNoFold(s) == s

\* str.lower()
Lower(s) == [i \in 1..Len(s) |-> LowerChar(s[i])]

\* the characters str.isalnum() accepts
IsAlnumChar(c) == c \in DOMAIN UpperToLower \/ c \in LowerLetters \/ c \in Digits

\* the regex class \w
IsWordChar(c) == IsAlnumChar(c) \/ c = "_"

\* str.isalnum(): non-empty and every character alphanumeric
IsAlnum(s) == Len(s) > 0 /\ \A i \in 1..Len(s) : IsAlnumChar(s[i])

\* pat in s
Contains(s, pat) ==
    \E i \in 1..(Len(s) - Len(pat) + 1) : SubSeq(s, i, i + Len(pat) - 1) = pat

\* the literals of the source
SHOW_ALL_TABLES == <<"s","h","o","w"," ","a","l","l"," ","t","a","b","l","e","s">>
INFORMATION_SCHEMA == <<"i","n","f","o","r","m","a","t","i","o","n","_","s","c","h","e","m","a">>
SYSTEM_APP == <<"s","y","s","t","e","m","_","a","p","p">>
DROP_SCHEMA == <<"d","r","o","p"," ","s","c","h","e","m","a">>
USER_ == <<"u","s","e","r","_">>
ADMIN == <<"a","d","m","i","n">>

\* the names the model uses as inputs
bob == <<"b","o","b">>
Bob == <<"B","o","b">>
alice == <<"a","l","i","c","e">>
BadName == <<"b","o","b",";">>

----------------------------------------------------------------------------
\* validate_sql_permissions

\* \b before position i of s: the character before i is no word character
BoundaryBefore(s, i) == i = 1 \/ ~IsWordChar(s[i - 1])

\* the end of the longest run of word characters of s that starts at i
\* (i - 1 when s[i] is no word character): the greedy \w+
RECURSIVE WordRunEnd(_, _)
WordRunEnd(s, i) ==
    IF i > Len(s) \/ ~IsWordChar(s[i]) THEN i - 1 ELSE WordRunEnd(s, i + 1)

\* whether r'\buser_(\w+)\b' matches s at position i; after the greedy \w+
\* the next character is no word character, so the closing \b holds
MatchesAt(s, i) ==
    /\ BoundaryBefore(s, i)
    /\ i + Len(USER_) - 1 <= Len(s)
    /\ SubSeq(s, i, i + Len(USER_) - 1) = USER_
    /\ WordRunEnd(s, i + Len(USER_)) >= i + Len(USER_)

\* re.findall(r'\buser_(\w+)\b', s): the captured groups of the
\* non-overlapping matches, scanning from position i, left to right
RECURSIVE FindAllFrom(_, _)
FindAllFrom(s, i) ==
    IF i > Len(s) THEN <<>>
    ELSE IF MatchesAt(s, i)
         THEN LET e == WordRunEnd(s, i + Len(USER_))
              IN  <<SubSeq(s, i + Len(USER_), e)>> \o FindAllFrom(s, e + 1)
         ELSE FindAllFrom(s, i + 1)

FindAll(s) == FindAllFrom(s, 1)

Allow == [ok |-> TRUE, rule |-> 0]
Deny(r) == [ok |-> FALSE, rule |-> r]

\* mutant: rule 4 compares the captured name with the name as given
RefersToOtherUserNoFold(sql_lower, name) ==
    LET schema_references == FindAll(sql_lower)
    IN  \E k \in 1..Len(schema_references) : schema_references[k] # name

\* rule 4: some captured name differs from username.lower()
RefersToOtherUser(sql_lower, name) ==
    LET schema_references == FindAll(sql_lower)
    IN  \E k \in 1..Len(schema_references) : schema_references[k] # Lower(name)

\* mutant: the admin test is dropped
IsAdminNever(name) == FALSE

\* username == "admin"
IsAdmin(name) == name = ADMIN

\* validate_sql_permissions(sql, username): (ok, number of the denying rule)
ValidateSqlPermissions(text, name) ==
    IF IsAdmin(name) THEN Allow
    ELSE LET sql_lower == Lower(text)
         IN  IF Contains(sql_lower, SHOW_ALL_TABLES) THEN Deny(1)
             ELSE IF Contains(sql_lower, INFORMATION_SCHEMA) THEN Deny(2)
             ELSE IF Contains(sql_lower, SYSTEM_APP) THEN Deny(3)
             ELSE IF RefersToOtherUser(sql_lower, name) THEN Deny(4)
             ELSE IF Contains(sql_lower, DROP_SCHEMA) THEN Deny(5)
             ELSE Allow

----------------------------------------------------------------------------
\* The backing database as the handlers use it.

\* f"user_{username}"
SafeSchema(name) == USER_ \o name

\* the catalog compares schema identifiers without regard to letter case
CatalogKey(id) == Lower(id)

MAIN == <<"m","a","i","n">>

\* SELECT 1 FROM system_app.users WHERE username=? ... fetchone()
UserExists(tbl, name) == name \in DOMAIN tbl

\* INSERT INTO system_app.users (username, password) VALUES (?, ?);
\* username is the PRIMARY KEY, so a second row for a name is refused
\* mutant: the table has no primary key
InsertOkAlways(tbl, name) == TRUE

InsertOk(tbl, name) == name \notin DOMAIN tbl

InsertUser(tbl, name, password) ==
    [m \in DOMAIN tbl \cup {name} |-> IF m = name THEN password ELSE tbl[m]]

\* mutant: the check of the name's characters is dropped
NameAcceptedAlways(name) == TRUE

\* username.isalnum()
NameAccepted(name) == IsAlnum(name)

\* mutant: the namespace is not provisioned
CreateSchemaIfNotExistsSkipped(cat, id) == cat

\* CREATE SCHEMA IF NOT EXISTS <id>;
CreateSchemaIfNotExists(cat, id) == cat \cup {CatalogKey(id)}

\* mutant: the row is kept
DeleteFromUsersKept(tbl, name) == tbl

\* DELETE FROM system_app.users WHERE username=?
DeleteFromUsers(tbl, name) == [m \in DOMAIN tbl \ {name} |-> tbl[m]]

\* DROP SCHEMA IF EXISTS <id> CASCADE;
DropSchemaIfExists(cat, id) == cat \ {CatalogKey(id)}

\* mutant: any stored row lets the login pass
PasswordMatchesAny(tbl, name, password) == name \in DOMAIN tbl

\* result and result[0] == password, for
\* SELECT password FROM system_app.users WHERE username = ?; ... fetchone()
PasswordMatches(tbl, name, password) ==
    name \in DOMAIN tbl /\ tbl[name] = password

\* one backend call of a handler, with its argument and whether it succeeded
Ev(stmt, arg, ok) == [stmt |-> stmt, arg |-> arg, ok |-> ok]

Res(type, msg) == [type |-> type, msg |-> msg]

Out(tbl, cat, tabs, events, result) ==
    [users |-> tbl, schemas |-> cat, tables |-> tabs,
     events |-> events, result |-> result]

Connect == Ev("connect", <<>>, TRUE)
ConnectFailed == Ev("connect", <<>>, FALSE)
Close == Ev("close", <<>>, TRUE)

\* register_user(username, password); f numbers the backend call that fails
\* (1 connect, 2 SELECT, 3 INSERT, 4 CREATE SCHEMA), 0 for none
RegisterUser(name, password, f) ==
    IF f = 1
    THEN Out(users, schemas, tables, <<ConnectFailed>>, Res("raise", "connect"))
    ELSE IF ~NameAccepted(name)
    THEN Out(users, schemas, tables, <<Connect, Close>>,
             Res("error", "Username must be alphanumeric only."))
    ELSE IF f = 2
    THEN Out(users, schemas, tables,
             <<Connect, Ev("SELECT", name, FALSE), Close>>,
             Res("error", "backend"))
    ELSE IF UserExists(users, name)
    THEN Out(users, schemas, tables,
             <<Connect, Ev("SELECT", name, TRUE), Close>>,
             Res("error", "User already exists"))
    ELSE IF f = 3 \/ ~InsertOk(users, name)
    THEN Out(users, schemas, tables,
             <<Connect, Ev("SELECT", name, TRUE), Ev("INSERT", name, FALSE),
               Close>>,
             Res("error", "backend"))
    ELSE IF f = 4
    THEN Out(InsertUser(users, name, password), schemas, tables,
             <<Connect, Ev("SELECT", name, TRUE), Ev("INSERT", name, TRUE),
               Ev("CREATE SCHEMA", SafeSchema(name), FALSE), Close>>,
             Res("error", "backend"))
    ELSE Out(InsertUser(users, name, password),
             CreateSchemaIfNotExists(schemas, SafeSchema(name)), tables,
             <<Connect, Ev("SELECT", name, TRUE), Ev("INSERT", name, TRUE),
               Ev("CREATE SCHEMA", SafeSchema(name), TRUE), Close>>,
             Res("message", "registered successfully"))

\* login_user(username, password); f: 1 connect, 2 SELECT
LoginUser(name, password, f) ==
    IF f = 1
    THEN Out(users, schemas, tables, <<ConnectFailed>>, Res("raise", "connect"))
    ELSE IF f = 2
    THEN Out(users, schemas, tables,
             <<Connect, Ev("SELECT", name, FALSE), Close>>, Res("None", ""))
    ELSE Out(users, schemas, tables,
             <<Connect, Ev("SELECT", name, TRUE), Close>>,
             IF PasswordMatches(users, name, password)
             THEN Res("True", "") ELSE Res("None", ""))

\* delete_user(username); f: 1 connect, 2 DELETE, 3 DROP SCHEMA
DeleteUser(name, f) ==
    IF f = 1
    THEN Out(users, schemas, tables, <<ConnectFailed>>, Res("raise", "connect"))
    ELSE IF f = 2
    THEN Out(users, schemas, tables,
             <<Connect, Ev("DELETE", name, FALSE), Close>>,
             Res("raise", "backend"))
    ELSE IF f = 3
    THEN Out(DeleteFromUsers(users, name), schemas, tables,
             <<Connect, Ev("DELETE", name, TRUE),
               Ev("DROP SCHEMA", SafeSchema(name), FALSE), Close>>,
             Res("raise", "backend"))
    ELSE Out(DeleteFromUsers(users, name),
             DropSchemaIfExists(schemas, SafeSchema(name)),
             tables \ {CatalogKey(SafeSchema(name))},
             <<Connect, Ev("DELETE", name, TRUE),
               Ev("DROP SCHEMA", SafeSchema(name), TRUE), Close>>,
             Res("True", ""))

----------------------------------------------------------------------------
\* run_sql_query and the statements the model lets a caller submit.

QCreateT == <<"c","r","e","a","t","e"," ","t","a","b","l","e"," ","t","(","x"," ","i","n","t",")">>
QSelectT == <<"s","e","l","e","c","t"," ","*"," ","f","r","o","m"," ","t">>
QSelectBobT == <<"S","E","L","E","C","T"," ","*"," ","F","R","O","M"," ","u","s","e","r","_","b","o","b",".","t">>
QDropBob == <<"D","R","O","P"," ","S","C","H","E","M","A"," ","u","s","e","r","_","b","o","b"," ","C","A","S","C","A","D","E">>
QSysUsers == <<"s","e","l","e","c","t"," ","*"," ","f","r","o","m"," ","s","y","s","t","e","m","_","a","p","p",".","u","s","e","r","s">>
QInfo == <<"s","e","l","e","c","t"," ","*"," ","f","r","o","m"," ","i","n","f","o","r","m","a","t","i","o","n","_","s","c","h","e","m","a",".","t","a","b","l","e","s">>
QShowAll == <<"s","h","o","w"," ","a","l","l"," ","t","a","b","l","e","s">>

AppTexts == { QCreateT, QSelectT, QSelectBobT, QDropBob, QSysUsers, QInfo, QShowAll }

\* what the database does with each text: the kind of statement and the
\* schema it names (<<>>: none named, the connection's current schema)
StatementOf(text) ==
    CASE text = QCreateT -> [kind |-> "create", schema |-> <<>>]
      [] text = QSelectT -> [kind |-> "read", schema |-> <<>>]
      [] text = QSelectBobT -> [kind |-> "read", schema |-> SafeSchema(bob)]
      [] text = QDropBob -> [kind |-> "dropschema", schema |-> SafeSchema(bob)]
      [] OTHER -> [kind |-> "catalog", schema |-> <<>>]

\* conn.execute(sql) on a connection whose current schema is cur:
\* whether it succeeds, whether it has a result set, and the database after it
ExecuteSql(text, cur) ==
    LET st == StatementOf(text)
        target == IF st.schema = <<>> THEN cur ELSE CatalogKey(st.schema)
        same == [ok |-> TRUE, rows |-> TRUE, schemas |-> schemas, tables |-> tables]
        failed == [ok |-> FALSE, rows |-> FALSE, schemas |-> schemas, tables |-> tables]
    IN  CASE st.kind = "create" ->
                IF target \in tables THEN failed
                ELSE [ok |-> TRUE, rows |-> FALSE, schemas |-> schemas,
                      tables |-> tables \cup {target}]
          [] st.kind = "read" ->
                IF target \in tables THEN same ELSE failed
          [] st.kind = "dropschema" ->
                IF target \in schemas
                THEN [ok |-> TRUE, rows |-> FALSE, schemas |-> schemas \ {target},
                      tables |-> tables \ {target}]
                ELSE failed
          [] OTHER -> same

\* mutant: a denied request goes on to the database
GateBlocksNever(v) == FALSE

\* if not is_valid: return {"type": "error", "message": msg}
GateBlocks(v) == ~v.ok

\* if username != "admin": conn.execute(f"USE {safe_schema};")
NeedsUse(name) == name # ADMIN

\* USE <id>; succeeds when the schema exists
UseOk(cat, id) == CatalogKey(id) \in cat

\* mutant: a failed USE is ignored
ExecutesAfterUseAlways(useOk) == TRUE

\* an exception of the USE statement leaves the try block
ExecutesAfterUse(useOk) == useOk

\* run_sql_query(username, sql); f: 1 connect, 2 USE, 3 execute, 4 fetchall
RunSqlQuery(name, text, f) ==
    LET v == ValidateSqlPermissions(text, name)
        bound == NeedsUse(name)
        useOk == f # 2 /\ UseOk(schemas, SafeSchema(name))
        pre == <<Connect>> \o
               (IF bound THEN <<Ev("USE", SafeSchema(name), useOk)>> ELSE <<>>)
        cur == IF bound /\ useOk THEN CatalogKey(SafeSchema(name)) ELSE MAIN
        x == ExecuteSql(text, cur)
    IN  IF GateBlocks(v)
        THEN Out(users, schemas, tables, <<>>, Res("error", "denied"))
        ELSE IF f = 1
        THEN Out(users, schemas, tables, <<ConnectFailed>>, Res("raise", "connect"))
        ELSE IF bound /\ ~ExecutesAfterUse(useOk)
        THEN Out(users, schemas, tables, pre \o <<Close>>, Res("error", "backend"))
        ELSE IF f = 3 \/ ~x.ok
        THEN Out(users, schemas, tables,
                 pre \o <<Ev("SQL", text, FALSE), Close>>, Res("error", "backend"))
        ELSE IF x.rows /\ f = 4
        THEN Out(users, x.schemas, x.tables,
                 pre \o <<Ev("SQL", text, TRUE), Ev("fetchall", <<>>, FALSE), Close>>,
                 Res("error", "backend"))
        ELSE Out(users, x.schemas, x.tables,
                 pre \o <<Ev("SQL", text, TRUE)>> \o
                 (IF x.rows THEN <<Ev("fetchall", <<>>, TRUE)>> ELSE <<>>) \o
                 <<Close>>,
                 IF x.rows THEN Res("table", "") ELSE Res("message", "Query executed successfully."))

----------------------------------------------------------------------------
\* The application: browser sessions calling the handlers.

NumSessions == 1

Sessions == 1..NumSessions


\* the names typed into the forms: three alphanumeric ones, the empty name
\* and one with a character that is not alphanumeric
NameInputs == { bob, Bob, ADMIN, <<>>, BadName }

Passwords == { "pw1", "pw2" }

\* ADMIN_TOKEN = st.secrets.get("ADMIN_TOKEN", "changeme")
ADMIN_TOKEN == "changeme"

AdminTokenInputs == { ADMIN_TOKEN, "guess" }

\* st.session_state["username"] = None, ["token"] = None
NoneName == <<"None">>
LoggedOut == [username |-> NoneName, token |-> FALSE]

EmptyTable == [m \in {} |-> ""]

NoVerdict == [ok |-> FALSE, rule |-> -1]

\* existed: whether system_app.users held a row for name when the call began
Call(op, s, name, password, text, v, o) ==
    [op |-> op, sess |-> s, name |-> name, password |-> password,
     existed |-> name \in DOMAIN users,
     text |-> text, verdict |-> v, events |-> o.events, result |-> o.result]

NoCall ==
    [op |-> "none", sess |-> 0, name |-> <<>>, password |-> "",
     existed |-> FALSE,
     text |-> <<>>, verdict |-> NoVerdict, events |-> <<>>, result |-> Res("", "")]

\* the two calls of the interleaving specification
Procs == { "A", "B" }

Proc(op, name, password, pc, exists, result) ==
    [op |-> op, name |-> name, password |-> password, pc |-> pc,
     exists |-> exists, result |-> result]

NoProc == Proc("none", <<>>, "", "done", FALSE, Res("", ""))

Init ==
    /\ sql = <<>>
    /\ username = <<>>
    /\ verdict = NoVerdict
    /\ users = EmptyTable
    /\ schemas = {}
    /\ tables = {}
    /\ session = [s \in Sessions |-> LoggedOut]
    /\ auth = [s \in Sessions |-> "none"]
    /\ known = {}
    /\ proc = [p \in Procs |-> NoProc]
    /\ call = NoCall

\* sidebar, "New User Registration": register_user(new_user, new_password)
Register(s, name, password, f) ==
    /\ ~session[s].token
    /\ \E o \in {RegisterUser(name, password, f)} :
           /\ users' = o.users
           /\ schemas' = o.schemas
           /\ tables' = o.tables
           /\ known' = known \cup DOMAIN o.users
           /\ call' = Call("register", s, name, password, <<>>, NoVerdict, o)
    /\ UNCHANGED <<session, auth, gateVars, proc>>

\* sidebar, "User Login": login_user(username, password), then the session
\* takes the name typed into the form
Login(s, name, password, f) ==
    /\ ~session[s].token
    /\ \E o \in {LoginUser(name, password, f)} :
           /\ users' = o.users
           /\ IF o.result.type = "True"
              THEN /\ session' = [session EXCEPT ![s] = [username |-> name, token |-> TRUE]]
                   /\ auth' = [auth EXCEPT ![s] = "credential"]
              ELSE UNCHANGED <<session, auth>>
           /\ call' = Call("login", s, name, password, <<>>, NoVerdict, o)
    /\ UNCHANGED <<schemas, tables, known, gateVars, proc>>

\* sidebar, "Admin Login": the token typed is compared with ADMIN_TOKEN
AdminLogin(s, token) ==
    /\ ~session[s].token
    /\ IF token = ADMIN_TOKEN
       THEN /\ session' = [session EXCEPT ![s] = [username |-> ADMIN, token |-> TRUE]]
            /\ auth' = [auth EXCEPT ![s] = "secret"]
       ELSE UNCHANGED <<session, auth>>
    /\ call' = [NoCall EXCEPT !.op = "admin_login", !.sess = s,
                              !.result = Res(IF token = ADMIN_TOKEN THEN "True" ELSE "None", "")]
    /\ UNCHANGED <<users, schemas, tables, known, gateVars, proc>>

\* "Logout": st.session_state.clear()
Logout(s) ==
    /\ session[s].token
    /\ session' = [session EXCEPT ![s] = LoggedOut]
    /\ auth' = [auth EXCEPT ![s] = "none"]
    /\ call' = [NoCall EXCEPT !.op = "logout", !.sess = s]
    /\ UNCHANGED <<users, schemas, tables, known, gateVars, proc>>

\* admin dashboard, "Manage Users": delete_user(user_to_delete). The name is
\* one that get_all_users() has listed, "admin" filtered out; the listing and
\* the deletion are separate database calls, so the row may be gone by now
Delete(s, name, f) ==
    /\ session[s].token
    /\ session[s].username = ADMIN
    /\ name # ADMIN
    /\ name \in known
    /\ \E o \in {DeleteUser(name, f)} :
           /\ users' = o.users
           /\ schemas' = o.schemas
           /\ tables' = o.tables
           /\ call' = Call("delete", s, name, "", <<>>, NoVerdict, o)
    /\ UNCHANGED <<session, auth, known, gateVars, proc>>

\* dashboards, SQL editor: run_sql_query(username, sql_query) with the
\* session's name ("admin" on the admin dashboard)
Query(s, text, f) ==
    /\ session[s].token
    /\ \E name \in {session[s].username} : \E o \in {RunSqlQuery(name, text, f)} :
           /\ users' = o.users
           /\ schemas' = o.schemas
           /\ tables' = o.tables
           /\ call' = Call("query", s, name, "", text,
                           ValidateSqlPermissions(text, name), o)
    /\ UNCHANGED <<session, auth, known, gateVars, proc>>

\* the application over a database whose calls do not fail of themselves
Next ==
    \/ \E s \in Sessions, name \in NameInputs, password \in Passwords :
          Register(s, name, password, 0)
    \/ \E s \in Sessions, name \in NameInputs, password \in Passwords :
          Login(s, name, password, 0)
    \/ \E s \in Sessions, token \in AdminTokenInputs : AdminLogin(s, token)
    \/ \E s \in Sessions : Logout(s)
    \/ \E s \in Sessions, name \in NameInputs : Delete(s, name, 0)
    \/ \E s \in Sessions, text \in AppTexts : Query(s, text, 0)

Spec == Init /\ [][Next]_vars

\* the backend calls of each handler that may fail, 0 for none
RegisterFailures == 0..4
LoginFailures == 0..2
DeleteFailures == 0..3
QueryFailures == 0..4

\* the application over a database of which any one call of an invocation
\* may fail
NextFail ==
    \/ \E s \in Sessions, name \in NameInputs, password \in Passwords,
          f \in RegisterFailures : Register(s, name, password, f)
    \/ \E s \in Sessions, name \in NameInputs, password \in Passwords,
          f \in LoginFailures : Login(s, name, password, f)
    \/ \E s \in Sessions, token \in AdminTokenInputs : AdminLogin(s, token)
    \/ \E s \in Sessions : Logout(s)
    \/ \E s \in Sessions, name \in NameInputs, f \in DeleteFailures :
          Delete(s, name, f)
    \/ \E s \in Sessions, text \in AppTexts, f \in QueryFailures :
          Query(s, text, f)

SpecFail == Init /\ [][NextFail]_vars

----------------------------------------------------------------------------
\* Interleaving specification: two calls of register_user or delete_user,
\* made by two browser sessions, whose database statements interleave. Each
\* conn.execute is one step; the backend does not fail of itself.

ConcNames == { bob, Bob }

\* the table and the catalog when the two calls begin
ConcTables == { EmptyTable, InsertUser(EmptyTable, bob, "pw1") }

ConcSchemas(tbl) == { CatalogKey(SafeSchema(n)) : n \in DOMAIN tbl }

\* the calls: register_user(name, password) with a name typed into the form,
\* delete_user(name) with a name the listing showed
ConcCalls(tbl) ==
    { Proc("register", n, c, "start", FALSE, Res("", "")) :
          n \in ConcNames, c \in Passwords }
    \cup { Proc("delete", n, "", "start", FALSE, Res("", "")) : n \in DOMAIN tbl }

ConcInit ==
    /\ sql = <<>>
    /\ username = <<>>
    /\ verdict = NoVerdict
    /\ users \in ConcTables
    /\ schemas = ConcSchemas(users)
    /\ tables = {}
    /\ session = [s \in Sessions |-> LoggedOut]
    /\ auth = [s \in Sessions |-> "none"]
    /\ known = DOMAIN users
    /\ proc \in [Procs -> ConcCalls(users)]
    /\ call = NoCall

ConcIdle == <<gateVars, session, auth, known, call>>

At(p, op, pc) == proc[p].op = op /\ proc[p].pc = pc

Goto(p, pc) == proc' = [proc EXCEPT ![p].pc = pc]

Return(p, result) == proc' = [proc EXCEPT ![p].pc = "done", ![p].result = result]

\* register_user: conn = get_connection(); if not username.isalnum(): return
RegConnect(p) ==
    /\ At(p, "register", "start")
    /\ IF NameAccepted(proc[p].name)
       THEN Goto(p, "select")
       ELSE Return(p, Res("error", "Username must be alphanumeric only."))
    /\ UNCHANGED <<users, schemas, tables, ConcIdle>>

\* register_user: exists = SELECT 1 ... fetchone(); if exists: return
RegSelect(p) ==
    /\ At(p, "register", "select")
    /\ IF UserExists(users, proc[p].name)
       THEN Return(p, Res("error", "User already exists"))
       ELSE Goto(p, "insert")
    /\ UNCHANGED <<users, schemas, tables, ConcIdle>>

\* register_user: INSERT INTO system_app.users; a refused INSERT raises and
\* the except clause returns the error
RegInsert(p) ==
    /\ At(p, "register", "insert")
    /\ IF InsertOk(users, proc[p].name)
       THEN /\ users' = InsertUser(users, proc[p].name, proc[p].password)
            /\ Goto(p, "create")
       ELSE /\ users' = users
            /\ Return(p, Res("error", "backend"))
    /\ UNCHANGED <<schemas, tables, ConcIdle>>

\* register_user: CREATE SCHEMA IF NOT EXISTS; return the message
RegCreate(p) ==
    /\ At(p, "register", "create")
    /\ schemas' = CreateSchemaIfNotExists(schemas, SafeSchema(proc[p].name))
    /\ Return(p, Res("message", "registered successfully"))
    /\ UNCHANGED <<users, tables, ConcIdle>>

\* delete_user: conn = get_connection()
DelConnect(p) ==
    /\ At(p, "delete", "start")
    /\ Goto(p, "delete")
    /\ UNCHANGED <<users, schemas, tables, ConcIdle>>

\* delete_user: DELETE FROM system_app.users WHERE username=?
DelDelete(p) ==
    /\ At(p, "delete", "delete")
    /\ users' = DeleteFromUsers(users, proc[p].name)
    /\ Goto(p, "drop")
    /\ UNCHANGED <<schemas, tables, ConcIdle>>

\* delete_user: DROP SCHEMA IF EXISTS ... CASCADE; return True
DelDrop(p) ==
    /\ At(p, "delete", "drop")
    /\ schemas' = DropSchemaIfExists(schemas, SafeSchema(proc[p].name))
    /\ tables' = tables \ {CatalogKey(SafeSchema(proc[p].name))}
    /\ Return(p, Res("True", ""))
    /\ UNCHANGED <<users, ConcIdle>>

ConcNext ==
    \E p \in Procs :
        \/ RegConnect(p)
        \/ RegSelect(p)
        \/ RegInsert(p)
        \/ RegCreate(p)
        \/ DelConnect(p)
        \/ DelDelete(p)
        \/ DelDrop(p)

SpecConc == ConcInit /\ [][ConcNext]_vars

----------------------------------------------------------------------------
\* Gate specification: the gate applied to texts built from fragments.

MaxFrags == 3

FrFrom == <<"f","r","o","m"," ">>
FrDotT == <<".","t">>
FrMy == <<"m","y">>
FrUX == <<"_","x">>
FrUserBob == <<"u","s","e","r","_","b","o","b">>
FrUserBobUp == <<"U","S","E","R","_","B","O","B">>
FrUserAlice == <<"U","s","e","r","_","A","l","i","c","e">>
FrShow == <<"S","h","o","w"," ","A","l","l"," ","T","a","b","l","e","s">>
FrInfo == <<"I","n","f","o","r","m","a","t","i","o","n","_","S","c","h","e","m","a">>
FrSys == <<"S","Y","S","T","E","M","_","A","P","P">>
FrDrop == <<"D","r","o","p"," ","S","c","h","e","m","a"," ">>

Fragments ==
    { FrFrom, FrDotT, FrMy, FrUX, USER_, FrUserBob, FrUserBobUp, FrUserAlice,
      FrShow, FrInfo, FrSys, FrDrop }

RECURSIVE Concat(_)
Concat(fs) == IF fs = <<>> THEN <<>> ELSE Head(fs) \o Concat(Tail(fs))

GateTexts ==
    { Concat(fs) : fs \in UNION { [1..n -> Fragments] : n \in 0..MaxFrags } }

GateCallers == { alice, Bob, ADMIN }

GateInit ==
    /\ sql \in GateTexts
    /\ username \in GateCallers
    /\ verdict = NoVerdict
    /\ users = EmptyTable
    /\ schemas = {}
    /\ tables = {}
    /\ session = [s \in Sessions |-> LoggedOut]
    /\ auth = [s \in Sessions |-> "none"]
    /\ known = {}
    /\ proc = [p \in Procs |-> NoProc]
    /\ call = NoCall

\* one call validate_sql_permissions(sql, username)
GateValidate ==
    /\ verdict = NoVerdict
    /\ verdict' = ValidateSqlPermissions(sql, username)
    /\ UNCHANGED <<sql, username, appVars>>

GateNext == GateValidate

SpecGate == GateInit /\ [][GateNext]_vars

----------------------------------------------------------------------------
\* The claims about the gate.

\* pat occurs in s in some letter case
ContainsAnyCase(s, pat) ==
    \E i \in 1..(Len(s) - Len(pat) + 1) :
        \A k \in 1..Len(pat) : LowerChar(s[i + k - 1]) = pat[k]

\* s and t are equal up to letter case
SameAnyCase(s, t) ==
    Len(s) = Len(t) /\ \A k \in 1..Len(s) : LowerChar(s[k]) = LowerChar(t[k])

\* s[i..j] is a whole word of s
IsToken(s, i, j) ==
    /\ 1 <= i /\ i <= j /\ j <= Len(s)
    /\ \A k \in i..j : IsWordChar(s[k])
    /\ (i = 1 \/ ~IsWordChar(s[i - 1]))
    /\ (j = Len(s) \/ ~IsWordChar(s[j + 1]))

\* s holds a token user_<id>, in any letter case, whose <id> is not name
HasForeignToken(s, name) ==
    \E i \in 1..Len(s) : \E j \in (i + Len(USER_))..Len(s) :
        /\ IsToken(s, i, j)
        /\ SameAnyCase(SubSeq(s, i, i + Len(USER_) - 1), USER_)
        /\ ~SameAnyCase(SubSeq(s, i + Len(USER_), j), name)

HasRuleKeyword(s) ==
    \/ ContainsAnyCase(s, SHOW_ALL_TABLES)
    \/ ContainsAnyCase(s, INFORMATION_SCHEMA)
    \/ ContainsAnyCase(s, SYSTEM_APP)
    \/ ContainsAnyCase(s, DROP_SCHEMA)

\* C1: for a caller other than admin and a text holding none of the keywords
\* of rules 1, 2, 3 and 5, the gate denies exactly when the text holds a
\* token user_<id> whose <id> differs, up to letter case, from the caller.
C1_Rule4Exact ==
    (verdict # NoVerdict /\ username # ADMIN /\ ~HasRuleKeyword(sql))
        => (~verdict.ok <=> HasForeignToken(sql, username))

\* alice names user_bob in the middle of a text and is denied by rule 4
C1_Witness ==
    /\ username = alice
    /\ sql = FrFrom \o FrUserBob \o FrDotT
    /\ verdict = Deny(4)

\* C3: for a caller other than admin, a text that holds one of the forbidden
\* phrases, in any letter case, is denied.
C3_KeywordsDenied ==
    (verdict # NoVerdict /\ username # ADMIN /\ HasRuleKeyword(sql))
        => ~verdict.ok

\* alice issues Drop Schema User_Alice, naming only her own namespace
C3_Witness ==
    /\ username = alice
    /\ sql = FrDrop \o FrUserAlice
    /\ verdict = Deny(5)

----------------------------------------------------------------------------
\* The claims about the application.

Executed(c) == \E i \in 1..Len(c.events) : c.events[i].stmt = "SQL"

\* the SQL of call c ran on a connection bound to the caller's namespace
BoundBeforeSql(c) ==
    \A i \in 1..Len(c.events) :
        c.events[i].stmt = "SQL" =>
            \E j \in 1..(i - 1) : c.events[j] = Ev("USE", SafeSchema(c.name), TRUE)

\* C2: a session that logged in through login_user is subject to the gate
\* and bound to user_<name>, whatever name was registered: its texts holding
\* a forbidden phrase are denied, and its SQL runs only after USE user_<name>.
C2_TenantNeverExempt ==
    (call.op = "query" /\ auth[call.sess] = "credential")
        => /\ (HasRuleKeyword(call.text) => ~call.verdict.ok)
           /\ BoundBeforeSql(call)

\* C4: for the caller admin the gate allows every text, and run_sql_query
\* executes the text without any USE statement.
C4_AdminBypass ==
    (call.op = "query" /\ call.name = ADMIN)
        => /\ call.verdict = Allow
           /\ \E i \in 1..Len(call.events) :
                  call.events[i].stmt = "SQL" /\ call.events[i].arg = call.text
           /\ \A i \in 1..Len(call.events) : call.events[i].stmt # "USE"

\* the admin, logged in with the shared secret, drops the schema user_bob
C4_Witness ==
    /\ call.op = "query"
    /\ call.name = ADMIN
    /\ auth[call.sess] = "secret"
    /\ call.text = QDropBob
    /\ call.result.type = "message"

\* C5: a request the gate denies returns an error result, opens no
\* connection, executes no statement and leaves the database as it was.
C5_DeniedNeverReachesDb ==
    [][(call'.op = "query" /\ ~call'.verdict.ok)
          => /\ call'.events = <<>>
             /\ call'.result.type = "error"
             /\ users' = users /\ schemas' = schemas /\ tables' = tables]_vars

\* bob asks to drop his own schema, is denied by rule 5, and the schema stays
C5_Witness ==
    /\ call.op = "query"
    /\ call.name = bob
    /\ call.text = QDropBob
    /\ call.verdict = Deny(5)
    /\ CatalogKey(SafeSchema(bob)) \in schemas

\* C6: for a caller other than admin, every backend call of run_sql_query is
\* made on a connection opened and closed within the invocation; the
\* caller's SQL is executed only right after a successful USE user_<u> on
\* that connection, and not at all when the USE fails.
C6_BoundPerInvocation ==
    (call.op = "query" /\ call.name # ADMIN /\ call.events # <<>>)
        => LET ev == call.events
           IN  /\ ev[1] = Connect
               /\ ev[Len(ev)] = Close
               /\ \A i \in 2..(Len(ev) - 1) : ev[i].stmt \notin {"connect", "close"}
               /\ ev[2].stmt = "USE" /\ ev[2].arg = SafeSchema(call.name)
               /\ \A i \in 1..Len(ev) : ev[i].stmt = "SQL" => (i = 3 /\ ev[2].ok)
               /\ ~ev[2].ok => ~Executed(call)

\* bob's schema was dropped by the admin: bob's USE fails and no SQL runs
C6_Witness ==
    /\ call.op = "query"
    /\ call.name = bob
    /\ call.events = <<Connect, Ev("USE", SafeSchema(bob), FALSE), Close>>
    /\ call.result.type = "error"

\* C7: register_user(n, c) for an alphanumeric n without a record succeeds
\* and leaves the record of n, with credential c, and the namespace user_<n>;
\* for an n with a record it returns the duplicate-name error and leaves the
\* table and the namespaces as they were.
C7_RegisterThenDuplicate ==
    [][(call'.op = "register" /\ IsAlnum(call'.name))
          => IF call'.name \notin DOMAIN users
             THEN /\ call'.result.type = "message"
                  /\ call'.name \in DOMAIN users'
                  /\ users'[call'.name] = call'.password
                  /\ CatalogKey(SafeSchema(call'.name)) \in schemas'
             ELSE /\ call'.result = Res("error", "User already exists")
                  /\ users' = users /\ schemas' = schemas /\ tables' = tables]_vars

\* bob is registered a second time, with another credential, and refused
C7_Witness ==
    /\ call.op = "register"
    /\ call.name = bob
    /\ call.result = Res("error", "User already exists")
    /\ bob \in DOMAIN users
    /\ users[bob] # call.password
    /\ CatalogKey(SafeSchema(bob)) \in schemas

\* C8: register_user(n, c) for an n that is not purely alphanumeric returns
\* the invalid-name error, issues no INSERT and no CREATE SCHEMA, and leaves
\* the table and the namespaces as they were.
C8_InvalidNameRejected ==
    [][(call'.op = "register" /\ ~IsAlnum(call'.name))
          => /\ call'.result = Res("error", "Username must be alphanumeric only.")
             /\ \A i \in 1..Len(call'.events) :
                    call'.events[i].stmt \notin {"INSERT", "CREATE SCHEMA"}
             /\ users' = users /\ schemas' = schemas /\ tables' = tables]_vars

\* the empty name is refused while another tenant is registered
C8_Witness ==
    /\ call.op = "register"
    /\ call.name = <<>>
    /\ call.result.type = "error"
    /\ bob \in DOMAIN users

\* C9: login_user(n, c) reports success exactly when the table holds a row
\* for n whose credential is c, and leaves the table as it was.
C9_LoginExact ==
    [][call'.op = "login"
          => /\ call'.result.type = "True"
                 <=> (call'.name \in DOMAIN users /\ users[call'.name] = call'.password)
             /\ call'.result.type \in {"True", "None"}
             /\ users' = users /\ schemas' = schemas]_vars

\* bob is registered with pw1 and a login with pw2 fails
C9_Witness ==
    /\ call.op = "login"
    /\ call.name = bob
    /\ bob \in DOMAIN users
    /\ users[bob] = "pw1"
    /\ call.password = "pw2"
    /\ call.result.type = "None"

\* what every delete_user(n) leaves: no row for n, so no login of n, and no
\* namespace user_<n>; called when both are already gone it changes nothing
DeleteLeaves ==
    /\ call'.name \notin DOMAIN users'
    /\ \A c \in Passwords : ~PasswordMatches(users', call'.name, c)
    /\ CatalogKey(SafeSchema(call'.name)) \notin schemas'
    /\ (~call'.existed /\ CatalogKey(SafeSchema(call'.name)) \notin schemas)
          => (users' = users /\ schemas' = schemas /\ tables' = tables)

\* the DELETE of call c reported that it found no row
ReportsNotFound(c) ==
    \/ c.result.type # "True"
    \/ \E i \in 1..Len(c.events) : c.events[i].stmt = "DELETE" /\ ~c.events[i].ok

----------------------------------------------------------------------------
\* The claims about failing backend calls.

HasEvent(c, stmt) == \E i \in 1..Len(c.events) : c.events[i].stmt = stmt

AllOk(c) == \A i \in 1..Len(c.events) : c.events[i].ok

\* C11: every delete_user(n) that reaches the database attempts both the
\* removal of the record and the drop of the namespace, also when the
\* removal fails.
C11_DeleteAttemptsBoth ==
    (call.op = "delete" /\ HasEvent(call, "DELETE"))
        => HasEvent(call, "DROP SCHEMA")

\* the table holds a record for n exactly when the catalog holds user_<n>
RecordIffNamespace ==
    /\ \A n \in DOMAIN users : CatalogKey(SafeSchema(n)) \in schemas
    /\ \A k \in schemas : \E n \in DOMAIN users : CatalogKey(SafeSchema(n)) = k

\* C12: with the handlers run one at a time and any backend call allowed to
\* fail, between the calls a record for n exists exactly when the namespace
\* user_<n> exists.
C12_RecordIffNamespace == RecordIffNamespace

\* C13: register_user(n, c) called again, on a healthy backend, with the
\* record of n stored and the namespace user_<n> missing leaves both; and
\* delete_user(n) called again with the record gone and the namespace left
\* leaves neither.
C13_RerunCompletes ==
    [][/\ (/\ call'.op = "register" /\ AllOk(call')
           /\ call'.name \in DOMAIN users
           /\ users[call'.name] = call'.password
           /\ CatalogKey(SafeSchema(call'.name)) \notin schemas)
          => (/\ call'.name \in DOMAIN users'
              /\ CatalogKey(SafeSchema(call'.name)) \in schemas')
       /\ (/\ call'.op = "delete" /\ AllOk(call')
           /\ call'.name \notin DOMAIN users
           /\ CatalogKey(SafeSchema(call'.name)) \in schemas)
          => (/\ call'.name \notin DOMAIN users'
              /\ CatalogKey(SafeSchema(call'.name)) \notin schemas')]_vars

\* C15: run_sql_query returns an error result, and raises nothing, whichever
\* backend call fails, and closes the connection it opened.
C15_QueryNeverRaises ==
    call.op = "query"
        => /\ call.result.type \in {"error", "table", "message"}
           /\ (\E i \in 1..Len(call.events) : ~call.events[i].ok)
                  => call.result.type = "error"
           /\ Connect \in {call.events[i] : i \in 1..Len(call.events)}
                  => call.events[Len(call.events)] = Close

----------------------------------------------------------------------------
\* The claims about interleaved calls and about namespaces.

BothDone == \A p \in Procs : proc[p].pc = "done"

Succeeded(p) == proc[p].result.type \in {"message", "True"}

\* both calls are register_user calls for one name
TwoRegistrations ==
    /\ \A p \in Procs : proc[p].op = "register"
    /\ proc["A"].name = proc["B"].name

\* C14: when two register_user calls for one name have both returned, at
\* most one has returned success and the other an error result, the table
\* holds the record of the name, and when one succeeded the stored
\* credential is the one it supplied.
C14_OneRegistrationWins ==
    (BothDone /\ TwoRegistrations)
        => /\ \E p \in Procs : proc[p].result.type = "error"
           /\ \A p \in Procs : proc[p].result.type \in {"message", "error"}
           /\ proc["A"].name \in DOMAIN users
           /\ \A p \in Procs :
                  Succeeded(p) => users[proc[p].name] = proc[p].password

\* both calls passed the existence check before either inserted: the INSERT
\* of B was refused by the primary key and A's credential is stored
C14_Witness ==
    /\ BothDone /\ TwoRegistrations
    /\ proc["A"].name = bob
    /\ proc["A"].password = "pw1" /\ proc["B"].password = "pw2"
    /\ proc["A"].result.type = "message"
    /\ proc["B"].result = Res("error", "backend")
    /\ users[bob] = "pw1"

\* C16: no two registered tenants have namespaces user_<n> that the database
\* takes for the same schema, and no tenant's namespace is the system one.
C16_NamespacesDistinct ==
    /\ \A n \in DOMAIN users : \A m \in DOMAIN users :
           n # m => CatalogKey(SafeSchema(n)) # CatalogKey(SafeSchema(m))
    /\ \A n \in DOMAIN users : CatalogKey(SafeSchema(n)) # CatalogKey(SYSTEM_APP)

\* C17: when a register_user(n, c) and a delete_user(n) have both returned,
\* the record of n and the namespace user_<n> both exist or are both absent.
C17_RegisterDeleteConsistent ==
    \A p \in Procs : \A q \in Procs :
        (/\ BothDone
         /\ proc[p].op = "register" /\ proc[q].op = "delete"
         /\ proc[p].name = proc[q].name)
            => (proc[p].name \in DOMAIN users
                    <=> CatalogKey(SafeSchema(proc[p].name)) \in schemas)

====
